---- MODULE Spec2Model ----
(***************************************************************************)
(* Credential lifecycle of the BE-umkmai backend: the auth use case        *)
(* (Register / Login / RefreshToken / Logout), the JWT service, the        *)
(* password service, the Redis-backed session cache with its key builder,  *)
(* the HTTP auth handlers and the authentication middleware.               *)
(*                                                                         *)
(* Time is counted in whole seconds, the precision jwt.NewNumericDate      *)
(* keeps.  One handler runs within one clock second.  Strings that the     *)
(* code parses (e-mail addresses, JWTs, cache keys, Authorization headers) *)
(* are modelled by their parts so that parsing is computed, not assumed.   *)
(***************************************************************************)
EXTENDS Integers, Sequences, FiniteSets, TLC

VARIABLES cfg, now, ticks, clockLog, users, cache, last, calls

vars == <<cfg, now, ticks, clockLog, users, cache, last, calls>>

(***************************************************************************)
(* Bounds of the model                                                     *)
(***************************************************************************)
MaxTicks == 1
\* longest role list in a request context, longest list of required names or permissions
MaxRoles == 2
MaxRequired == 2
\* RefreshToken calls the server runs at the same time
MaxCallers == 2

(***************************************************************************)
(* Program constants                                                       *)
(***************************************************************************)
\* 7*time.Hour*24, the TTL every cache.Set of a refresh key passes, in seconds
SessionTTL == 604800
\* len(req.Password) < 8
MinPasswordLen == 8
\* bcrypt.GenerateFromPassword(..., 12)
BcryptCost == 12

NoTime == -1

(***************************************************************************)
(* Configuration (config.JWTConfig, cache key prefix of main.go)           *)
(***************************************************************************)
JWTConfigs ==
    { [Secret |-> "secret-A", AccessTokenExpiry |-> 900,
       RefreshTokenExpiry |-> 604800, Issuer |-> "umkmai"] }

KeyPrefix == "elysian"

(***************************************************************************)
(* E-mail addresses: sequences of one-character strings                    *)
(***************************************************************************)
Alpha == {"a", "b", "c", "d", "x", "i", "o"}
Digit == {"1"}
\* [A-Za-z0-9._%+-]
LocalChars == Alpha \cup Digit \cup {".", "_", "%", "+", "-"}
\* [A-Za-z0-9.-]
DomainChars == Alpha \cup Digit \cup {".", "-"}
\* RFC 5322 atext, restricted to the sample alphabet
AText == Alpha \cup Digit \cup {"_", "%", "+", "-"}

\* ^[A-Za-z0-9._%+-]+@[A-Za-z0-9.-]+\.[A-Za-z]{2,}$
EmailRegexMatch(e) ==
    \E at \in 1..Len(e), dot \in 1..Len(e) :
        /\ at > 1
        /\ e[at] = "@"
        /\ \A i \in 1..(at - 1) : e[i] \in LocalChars
        /\ dot > at + 1
        /\ e[dot] = "."
        /\ \A i \in (at + 1)..(dot - 1) : e[i] \in DomainChars
        /\ Len(e) - dot >= 2
        /\ \A i \in (dot + 1)..Len(e) : e[i] \in Alpha

\* a dot-atom: atext runs separated by single dots
DotAtom(s) ==
    /\ Len(s) > 0
    /\ \A i \in 1..Len(s) : s[i] \in AText \cup {"."}
    /\ s[1] # "."
    /\ s[Len(s)] # "."
    /\ \A i \in 1..(Len(s) - 1) : ~(s[i] = "." /\ s[i + 1] = ".")

\* mail.ParseAddress on a bare addr-spec: dot-atom "@" dot-atom
ParseAddress(e) ==
    \E at \in 1..Len(e) :
        /\ e[at] = "@"
        /\ DotAtom(SubSeq(e, 1, at - 1))
        /\ DotAtom(SubSeq(e, at + 1, Len(e)))

LocalNames == <<"a", "b", "c", "d">>
GoodEmail(i) == <<LocalNames[i], "@", "x", ".", "i", "o">>
\* passes mail.ParseAddress, fails the pattern (no top-level domain)
EmailNoTLD == <<"a", "@", "x">>
\* passes the pattern, fails mail.ParseAddress (leading dot)
EmailLeadingDot == <<".", "a", "@", "x", ".", "i", "o">>
\* fails both
EmailNoAt == <<"a", "x">>
NoEmail == <<>>

GoodEmails == {GoodEmail(1), GoodEmail(2)}

Emails == GoodEmails \cup {EmailNoTLD, EmailLeadingDot, EmailNoAt}

Passwords == {"password1", "hunter22", "short"}

(***************************************************************************)
(* PasswordService                                                         *)
(***************************************************************************)
NoHash == <<>>

HashPassword(password) ==
    IF password = ""
    THEN [ok |-> FALSE, hash |-> NoHash, err |-> "password cannot be empty"]
    ELSE [ok |-> TRUE, hash |-> <<"$2a$", BcryptCost, password>>, err |-> ""]

ComparePassword(hashedPassword, password) ==
    IF Len(hashedPassword) # 3
    THEN "password verification failed"
    ELSE IF hashedPassword[3] # password
         THEN "invalid password"
         ELSE ""

(***************************************************************************)
(* JWTService.  A token string is its dot-separated segments: header,      *)
(* claims, signature.  A signature records the method and the key that     *)
(* made it and whether it was computed over the very header and claims it  *)
(* travels with (intact); verification recomputes and compares it.         *)
(***************************************************************************)
NoToken == <<>>

Header(alg) == [alg |-> alg, typ |-> "JWT"]

NoClaims == [user_id |-> 0, email |-> NoEmail, exp |-> NoTime, iat |-> NoTime, iss |-> ""]

\* the family of a registered signing method; "" when jwt.GetSigningMethod finds none
SigningMethodFamily(alg) ==
    CASE alg \in {"HS256", "HS384", "HS512"} -> "HMAC"
      [] alg \in {"RS256"} -> "RSA"
      [] alg = "none" -> "none"
      [] OTHER -> ""

Sign(alg, key) ==
    [alg |-> alg, key |-> key, intact |-> TRUE]

\* jwt.NewWithClaims(method, claims).SignedString(key)
SignedString(alg, claims, key) ==
    <<Header(alg), claims, Sign(alg, key)>>

\* method.Verify(signingString, sig, key)
Verify(alg, key, sig) ==
    sig = Sign(alg, key)

\* deviation: the access token takes the refresh token's lifetime
GenerateAccessTokenRefreshExpiry(c, userID, email, t) ==
    SignedString("HS256",
                 [user_id |-> userID, email |-> email,
                  exp |-> t + c.RefreshTokenExpiry, iat |-> t, iss |-> c.Issuer],
                 c.Secret)

GenerateAccessToken(c, userID, email, t) ==
    SignedString("HS256",
                 [user_id |-> userID, email |-> email,
                  exp |-> t + c.AccessTokenExpiry, iat |-> t, iss |-> c.Issuer],
                 c.Secret)

\* deviation: a refresh token that does not name its user
GenerateRefreshTokenAnonymous(c, userID, t) ==
    SignedString("HS256",
                 [user_id |-> 0, email |-> NoEmail,
                  exp |-> t + c.RefreshTokenExpiry, iat |-> t, iss |-> c.Issuer],
                 c.Secret)

GenerateRefreshToken(c, userID, t) ==
    SignedString("HS256",
                 [user_id |-> userID, email |-> NoEmail,
                  exp |-> t + c.RefreshTokenExpiry, iat |-> t, iss |-> c.Issuer],
                 c.Secret)

\* deviation: a key callback that hands out the secret whatever the method
KeyFuncAnyMethod(c, header) ==
    [ok |-> TRUE, key |-> c.Secret]

\* the key callback of ValidateToken
KeyFunc(c, header) ==
    IF SigningMethodFamily(header.alg) # "HMAC"
    THEN [ok |-> FALSE, key |-> ""]
    ELSE [ok |-> TRUE, key |-> c.Secret]

\* deviation: a validator that never finds a token expired
ClaimsNeverExpire(claims, t) ==
    TRUE

\* the registered-claims validator of jwt/v5: an exp claim, when present, must lie
\* after the current time; iat is not verified by default
ClaimsNotExpired(claims, t) ==
    claims.exp = NoTime \/ t < claims.exp

ValidateToken(c, tokenString, t) ==
    IF Len(tokenString) # 3
    THEN [ok |-> FALSE, claims |-> NoClaims, err |-> "invalid token: token is malformed"]
    ELSE LET header == tokenString[1]
             claims == tokenString[2]
             sig    == tokenString[3]
             kf     == KeyFunc(c, header)
         IN  IF SigningMethodFamily(header.alg) = ""
             THEN [ok |-> FALSE, claims |-> NoClaims,
                   err |-> "invalid token: signing method (alg) is unavailable"]
             ELSE IF ~kf.ok
             THEN [ok |-> FALSE, claims |-> NoClaims,
                   err |-> "invalid token: unexpected signing method"]
             ELSE IF ~Verify(header.alg, kf.key, sig)
             THEN [ok |-> FALSE, claims |-> NoClaims,
                   err |-> "invalid token: signature is invalid"]
             ELSE IF ~ClaimsNotExpired(claims, t)
             THEN [ok |-> FALSE, claims |-> NoClaims,
                   err |-> "invalid token: token is expired"]
             ELSE [ok |-> TRUE, claims |-> claims, err |-> ""]

(***************************************************************************)
(* Cache keys and the Redis cache                                          *)
(***************************************************************************)
\* a key string is its literal colon-separated namespace followed by the identifier
\* CacheKeyBuilder.RefreshToken: "%s:refresh_token:%s" with the builder's prefix
KeyBuilderRefreshToken(token) ==
    [ns |-> <<KeyPrefix, "refresh_token">>, id |-> token]

\* the key Logout formats itself: "refresh_token:%s"
LogoutKey(token) ==
    [ns |-> <<"refresh_token">>, id |-> token]

EmptyCache == [k \in {} |-> [value |-> 0, expireAt |-> 0]]

\* deviation: a lookup that answers for keys it does not hold
CacheGetAnyKey(ch, key) ==
    IF key \in DOMAIN ch
    THEN [found |-> TRUE, value |-> ch[key].value, err |-> ""]
    ELSE [found |-> TRUE, value |-> 1, err |-> ""]

CacheGet(ch, key) ==
    IF key \in DOMAIN ch
    THEN [found |-> TRUE, value |-> ch[key].value, err |-> ""]
    ELSE [found |-> FALSE, value |-> 0, err |-> "key not found"]

CacheSet(ch, key, value, ttl, t) ==
    [k \in (DOMAIN ch) \cup {key} |->
        IF k = key THEN [value |-> value, expireAt |-> t + ttl] ELSE ch[k]]

\* deviation: a delete that reports an absent key as an error
CacheDeleteStrict(ch, key) ==
    IF key \in DOMAIN ch
    THEN [ch |-> [k \in (DOMAIN ch) \ {key} |-> ch[k]], err |-> ""]
    ELSE [ch |-> ch, err |-> "key not found"]

\* DEL of an absent key removes nothing and is no error
CacheDelete(ch, key) ==
    [ch |-> [k \in (DOMAIN ch) \ {key} |-> ch[k]], err |-> ""]

\* Redis drops a key once its TTL has run out
ExpireKeys(ch, t) ==
    [k \in {x \in DOMAIN ch : ch[x].expireAt > t} |-> ch[k]]

(***************************************************************************)
(* Identity Store: the users table behind repository.UserRepository.       *)
(* A row's position in the table is its id.                                *)
(***************************************************************************)
NoUser == [id |-> 0, email |-> NoEmail, passwordHash |-> NoHash,
           isActive |-> FALSE, lastLoginAt |-> NoTime]

ExistsByEmail(us, email) ==
    \E i \in 1..Len(us) : us[i].email = email

FindByEmail(us, email) ==
    IF \E i \in 1..Len(us) : us[i].email = email
    THEN [found |-> TRUE, user |-> us[CHOOSE i \in 1..Len(us) : us[i].email = email]]
    ELSE [found |-> FALSE, user |-> NoUser]

FindByID(us, id) ==
    IF id \in 1..Len(us)
    THEN [found |-> TRUE, user |-> us[id]]
    ELSE [found |-> FALSE, user |-> NoUser]

\* deviation: a users table without the uniqueness constraint on the e-mail
UserCreateUnconstrained(us, user) ==
    LET row == [user EXCEPT !.id = Len(us) + 1]
    IN  [ok |-> TRUE, users |-> Append(us, row), user |-> row]

\* INSERT: the table's default generates the id; uq_users_email rejects a taken e-mail
UserCreate(us, user) ==
    IF ExistsByEmail(us, user.email)
    THEN [ok |-> FALSE, users |-> us, user |-> user]
    ELSE LET row == [user EXCEPT !.id = Len(us) + 1]
         IN  [ok |-> TRUE, users |-> Append(us, row), user |-> row]

UserUpdate(us, user) ==
    [us EXCEPT ![user.id] = user]

(***************************************************************************)
(* authUseCase.  `fault` names the store call that fails with an           *)
(* infrastructure error in this run ("none": every call answers).          *)
(***************************************************************************)
\* deviation: an error return that also drops the sessions
UCFailDroppingSessions(us, ch, err) ==
    [users |-> us, cache |-> EmptyCache, err |-> err, fault |-> "none",
     access |-> NoToken, refresh |-> NoToken, user |-> NoUser]

UCFail(us, ch, err) ==
    [users |-> us, cache |-> ch, err |-> err, fault |-> "none",
     access |-> NoToken, refresh |-> NoToken, user |-> NoUser]

\* the store call `fault` answered with an infrastructure error
UCStoreFail(us, ch, err, fault) ==
    [UCFail(us, ch, err) EXCEPT !.fault = fault]

\* deviation: a Register that takes the user back out when the session write fails
UCRegisterRollingBack(us, ch, c, t, req, fault) ==
    IF ~ParseAddress(req.email)
    THEN UCFail(us, ch, "invalid email format: mail")
    ELSE IF ~EmailRegexMatch(req.email)
    THEN UCFail(us, ch, "invalid email format: does not match required pattern")
    ELSE IF fault = "ExistsByEmail"
    THEN UCStoreFail(us, ch, "store: ExistsByEmail failed", fault)
    ELSE IF ExistsByEmail(us, req.email)
    THEN UCFail(us, ch, "email already registered")
    ELSE IF Len(req.password) < MinPasswordLen
    THEN UCFail(us, ch, "password must be at least 8 characters")
    ELSE LET hashed == HashPassword(req.password)
             made   == UserCreate(us, [NoUser EXCEPT !.email = req.email,
                                                     !.passwordHash = hashed.hash,
                                                     !.isActive = TRUE])
             user   == made.user
             accessToken  == GenerateAccessToken(c, user.id, user.email, t)
             refreshToken == GenerateRefreshToken(c, user.id, t)
         IN  IF ~hashed.ok
             THEN UCFail(us, ch, hashed.err)
             ELSE IF fault = "Create"
             THEN UCStoreFail(us, ch, "store: Create failed", fault)
             ELSE IF ~made.ok
             THEN UCFail(us, ch, "store: duplicate key value violates unique constraint uq_users_email")
             ELSE IF fault = "Set"
             THEN UCStoreFail(us, ch, "failed to set key", fault)
             ELSE [users |-> made.users, fault |-> "none",
                   cache |-> CacheSet(ch, KeyBuilderRefreshToken(refreshToken),
                                      user.id, SessionTTL, t),
                   err |-> "", access |-> accessToken, refresh |-> refreshToken,
                   user |-> user]

UCRegister(us, ch, c, t, req, fault) ==
    IF ~ParseAddress(req.email)
    THEN UCFail(us, ch, "invalid email format: mail")
    ELSE IF ~EmailRegexMatch(req.email)
    THEN UCFail(us, ch, "invalid email format: does not match required pattern")
    ELSE IF fault = "ExistsByEmail"
    THEN UCStoreFail(us, ch, "store: ExistsByEmail failed", fault)
    ELSE IF ExistsByEmail(us, req.email)
    THEN UCFail(us, ch, "email already registered")
    ELSE IF Len(req.password) < MinPasswordLen
    THEN UCFail(us, ch, "password must be at least 8 characters")
    ELSE LET hashed == HashPassword(req.password)
             made   == UserCreate(us, [NoUser EXCEPT !.email = req.email,
                                                     !.passwordHash = hashed.hash,
                                                     !.isActive = TRUE])
             user   == made.user
             accessToken  == GenerateAccessToken(c, user.id, user.email, t)
             refreshToken == GenerateRefreshToken(c, user.id, t)
         IN  IF ~hashed.ok
             THEN UCFail(us, ch, hashed.err)
             ELSE IF fault = "Create"
             THEN UCStoreFail(us, ch, "store: Create failed", fault)
             ELSE IF ~made.ok
             THEN UCFail(us, ch, "store: duplicate key value violates unique constraint uq_users_email")
             ELSE IF fault = "Set"
             THEN UCStoreFail(made.users, ch, "failed to set key", fault)
             ELSE [users |-> made.users, fault |-> "none",
                   cache |-> CacheSet(ch, KeyBuilderRefreshToken(refreshToken),
                                      user.id, SessionTTL, t),
                   err |-> "", access |-> accessToken, refresh |-> refreshToken,
                   user |-> user]

UCLogin(us, ch, c, t, req, fault) ==
    LET got == FindByEmail(us, req.email) IN
    IF fault = "FindByEmail"
    THEN UCStoreFail(us, ch, "store: FindByEmail failed", fault)
    ELSE IF ~got.found
    THEN UCFail(us, ch, "user not found")
    ELSE LET user == got.user
             cmp  == ComparePassword(user.passwordHash, req.password)
             accessToken  == GenerateAccessToken(c, user.id, user.email, t)
             refreshToken == GenerateRefreshToken(c, user.id, t)
             ch1  == CacheSet(ch, KeyBuilderRefreshToken(refreshToken),
                              user.id, SessionTTL, t)
             seen == [user EXCEPT !.lastLoginAt = t]
         IN  IF cmp # ""
             THEN UCFail(us, ch, cmp)
             ELSE IF fault = "Set"
             THEN UCStoreFail(us, ch, "failed to set key", fault)
             ELSE IF fault = "Update"
             THEN UCStoreFail(us, ch1, "store: Update failed", fault)
             ELSE [users |-> UserUpdate(us, seen), cache |-> ch1, fault |-> "none",
                   err |-> "", access |-> accessToken, refresh |-> refreshToken,
                   user |-> [seen EXCEPT !.passwordHash = NoHash]]

UCRefreshToken(us, ch, c, t, refreshToken, fault) ==
    LET refreshKey == KeyBuilderRefreshToken(refreshToken)
        hit        == CacheGet(ch, refreshKey)
        got        == FindByID(us, hit.value)
    IN
    IF fault = "Get"
    THEN UCStoreFail(us, ch, "failed to get key", fault)
    ELSE IF ~hit.found
    THEN UCFail(us, ch, hit.err)
    ELSE IF fault = "FindByID"
    THEN UCStoreFail(us, ch, "store: FindByID failed", fault)
    ELSE IF ~got.found
    THEN UCFail(us, ch, "user not found")
    ELSE LET user == got.user
             newAccessToken  == GenerateAccessToken(c, user.id, user.email, t)
             newRefreshToken == GenerateRefreshToken(c, user.id, t)
             del == CacheDelete(ch, refreshKey)
         IN  IF fault = "Delete"
             THEN UCStoreFail(us, ch, "failed to delete key", fault)
             ELSE IF del.err # ""
             THEN UCFail(us, ch, del.err)
             ELSE IF fault = "Set"
             THEN UCStoreFail(us, del.ch, "failed to set key", fault)
             ELSE [users |-> us, fault |-> "none",
                   cache |-> CacheSet(del.ch, KeyBuilderRefreshToken(newRefreshToken),
                                      user.id, SessionTTL, t),
                   err |-> "", access |-> newAccessToken, refresh |-> newRefreshToken,
                   user |-> [user EXCEPT !.passwordHash = NoHash]]

UCLogout(us, ch, refreshToken, fault) ==
    LET refreshKey == LogoutKey(refreshToken)
        del        == CacheDelete(ch, refreshKey)
    IN  IF fault = "Delete"
        THEN UCStoreFail(us, ch, "failed to logout: failed to delete key", fault)
        ELSE IF del.err # ""
        THEN UCFail(us, ch, "failed to logout: failed to delete key")
        ELSE UCFail(us, del.ch, "")

(***************************************************************************)
(* Roles of a user (RoleRepository.GetUserRoles).  None of the handlers    *)
(* modelled here inserts a user_roles row; the seed migration gives the    *)
(* system administrator the admin role.                                    *)
(***************************************************************************)
JSONArray(items) == [valid |-> TRUE, items |-> items]
\* a permissions value json.Unmarshal cannot read into []string
JSONNotStrings == [valid |-> FALSE, items |-> <<>>]

\* the seeded account and its role
AdminEmail == <<"a", "d", "@", "x", ".", "i", "o">>

AdminRole == [name |-> <<"a", "d">>, permissions |-> JSONArray(<<"*">>)]

SeedAdmin == [NoUser EXCEPT !.id = 1, !.email = AdminEmail,
                            !.passwordHash = <<"$2a$", 10, "seeded">>,
                            !.isActive = TRUE]

RoleRows(us) ==
    {[user_id |-> us[i].id, role |-> AdminRole] :
        i \in {j \in 1..Len(us) : us[j].email = AdminEmail}}

GetUserRoles(us, userID) ==
    LET mine == {r \in RoleRows(us) : r.user_id = userID}
    IN  IF mine = {} THEN <<>> ELSE <<(CHOOSE r \in mine : TRUE).role>>

(***************************************************************************)
(* The record of the request handled last                                  *)
(***************************************************************************)
\* the request context: the keys c.Set has written, and the values under "user"
\* and "user_roles" ("user_id" and "user_email" repeat fields of the user)
NoCtx == [keys |-> {}, user |-> NoUser, user_roles |-> <<>>]

Blank == [op |-> "init", email |-> NoEmail, password |-> "", token |-> NoToken,
          parts |-> 0, scheme |-> "", fault |-> "none", err |-> "",
          status |-> 0, body |-> "", access |-> NoToken, refresh |-> NoToken,
          user |-> NoUser, aborted |-> FALSE, ctx |-> NoCtx,
          requiredRoles |-> <<>>, requiredPerms |-> <<>>]

\* the server has answered the previous request and takes the next one
Idle == last = Blank

(***************************************************************************)
(* HTTP handlers (AuthHandler): the whole request, use case included       *)
(***************************************************************************)
\* deviation: no error is recognised as a conflict
NeverAlreadyRegistered(err) ==
    FALSE

\* strings.Contains(err.Error(), "already registered")
ContainsAlreadyRegistered(err) ==
    err \in {"email already registered"}

HandlerRegister(req, fault) ==
    LET res == UCRegister(users, cache, cfg, now, req, fault)
        out == [Blank EXCEPT !.op = "Register", !.email = req.email,
                             !.password = req.password,
                             !.fault = res.fault, !.err = res.err]
    IN  /\ users' = res.users
        /\ cache' = res.cache
        /\ last' = IF res.err # ""
                   THEN IF ContainsAlreadyRegistered(res.err)
                        THEN [out EXCEPT !.status = 409, !.body = "Email already registered"]
                        ELSE [out EXCEPT !.status = 400, !.body = res.err]
                   ELSE [out EXCEPT !.status = 201, !.body = "User registered successfully",
                                    !.access = res.access, !.refresh = res.refresh,
                                    !.user = res.user]
        /\ UNCHANGED <<calls, cfg, now, ticks, clockLog>>

\* deviation: the response body repeats the use case's error
LoginResponseLeaky(res) ==
    IF res.err # ""
    THEN [status |-> 401, body |-> res.err,
          access |-> NoToken, refresh |-> NoToken, user |-> NoUser]
    ELSE [status |-> 200, body |-> "Login successful",
          access |-> res.access, refresh |-> res.refresh, user |-> res.user]

\* what AuthHandler.Login writes to the client for a use-case result
LoginResponse(res) ==
    IF res.err # ""
    THEN [status |-> 401, body |-> "Invalid email or password",
          access |-> NoToken, refresh |-> NoToken, user |-> NoUser]
    ELSE [status |-> 200, body |-> "Login successful",
          access |-> res.access, refresh |-> res.refresh, user |-> res.user]

HandlerLogin(req, fault) ==
    LET res == UCLogin(users, cache, cfg, now, req, fault)
        rsp == LoginResponse(res)
    IN  /\ users' = res.users
        /\ cache' = res.cache
        /\ last' = [Blank EXCEPT !.op = "Login", !.email = req.email,
                                 !.password = req.password,
                                 !.fault = res.fault, !.err = res.err,
                                 !.status = rsp.status, !.body = rsp.body,
                                 !.access = rsp.access, !.refresh = rsp.refresh,
                                 !.user = rsp.user]
        /\ UNCHANGED <<calls, cfg, now, ticks, clockLog>>

HandlerRefreshToken(refreshToken, fault) ==
    LET res == UCRefreshToken(users, cache, cfg, now, refreshToken, fault)
        out == [Blank EXCEPT !.op = "RefreshToken", !.token = refreshToken]
    IN  IF refreshToken = NoToken
        THEN /\ last' = [out EXCEPT !.status = 400, !.body = "Refresh token is required"]
             /\ UNCHANGED <<calls, cfg, now, ticks, clockLog, users, cache>>
        ELSE /\ users' = res.users
             /\ cache' = res.cache
             /\ last' = IF res.err # ""
                        THEN [out EXCEPT !.fault = res.fault, !.err = res.err,
                                         !.status = 401,
                                         !.body = "Invalid or expired refresh token"]
                        ELSE [out EXCEPT !.status = 200,
                                         !.body = "Token refreshed successfully",
                                         !.access = res.access, !.refresh = res.refresh,
                                         !.user = res.user]
             /\ UNCHANGED <<calls, cfg, now, ticks, clockLog>>

\* the handler drops the use case's error and always answers 200
HandlerLogout(refreshToken, fault) ==
    LET res == UCLogout(users, cache, refreshToken, fault)
        out == [Blank EXCEPT !.op = "Logout", !.token = refreshToken,
                             !.status = 200, !.body = "Logged out successfully"]
    IN  IF refreshToken = NoToken
        THEN /\ last' = out
             /\ UNCHANGED <<calls, cfg, now, ticks, clockLog, users, cache>>
        ELSE /\ users' = res.users
             /\ cache' = res.cache
             /\ last' = [out EXCEPT !.fault = res.fault, !.err = res.err]
             /\ UNCHANGED <<calls, cfg, now, ticks, clockLog>>

(***************************************************************************)
(* AuthMiddleware and OptionalAuth.  An Authorization header is the number *)
(* of its space-separated parts, the first part and the second part.       *)
(***************************************************************************)
MwOut(status, body, aborted, ctx) ==
    [status |-> status, body |-> body, aborted |-> aborted, ctx |-> ctx,
     fault |-> "none"]

\* deviation: the middleware without the active-flag check
AuthMiddlewareNoActiveCheck(us, c, t, hdr, fault) ==
    IF hdr.parts = 0
    THEN MwOut(401, "Authorization header required", TRUE, NoCtx)
    ELSE IF hdr.parts # 2 \/ hdr.scheme # "Bearer"
    THEN MwOut(401, "Invalid authorization header format", TRUE, NoCtx)
    ELSE LET v   == ValidateToken(c, hdr.token, t)
             got == FindByID(us, v.claims.user_id)
             user == got.user
             roles == IF fault = "GetUserRoles" THEN <<>> ELSE GetUserRoles(us, user.id)
         IN  IF ~v.ok
             THEN MwOut(401, "Invalid or expired token", TRUE, NoCtx)
             ELSE IF fault = "FindByID"
             THEN [MwOut(401, "User not found", TRUE, NoCtx) EXCEPT !.fault = fault]
             ELSE IF ~got.found
             THEN MwOut(401, "User not found", TRUE, NoCtx)
             ELSE [MwOut(0, "", FALSE,
                         [keys |-> {"user", "user_id", "user_email", "user_roles"},
                          user |-> user, user_roles |-> roles])
                   EXCEPT !.fault = IF fault = "GetUserRoles" THEN fault ELSE "none"]

AuthMiddleware(us, c, t, hdr, fault) ==
    IF hdr.parts = 0
    THEN MwOut(401, "Authorization header required", TRUE, NoCtx)
    ELSE IF hdr.parts # 2 \/ hdr.scheme # "Bearer"
    THEN MwOut(401, "Invalid authorization header format", TRUE, NoCtx)
    ELSE LET v   == ValidateToken(c, hdr.token, t)
             got == FindByID(us, v.claims.user_id)
             user == got.user
             roles == IF fault = "GetUserRoles" THEN <<>> ELSE GetUserRoles(us, user.id)
         IN  IF ~v.ok
             THEN MwOut(401, "Invalid or expired token", TRUE, NoCtx)
             ELSE IF fault = "FindByID"
             THEN [MwOut(401, "User not found", TRUE, NoCtx) EXCEPT !.fault = fault]
             ELSE IF ~got.found
             THEN MwOut(401, "User not found", TRUE, NoCtx)
             ELSE IF ~user.isActive
             THEN MwOut(403, "Account is disabled", TRUE, NoCtx)
             ELSE [MwOut(0, "", FALSE,
                         [keys |-> {"user", "user_id", "user_email", "user_roles"},
                          user |-> user, user_roles |-> roles])
                   EXCEPT !.fault = IF fault = "GetUserRoles" THEN fault ELSE "none"]

OptionalAuth(us, c, t, hdr, fault) ==
    IF hdr.parts = 0
    THEN MwOut(0, "", FALSE, NoCtx)
    ELSE IF hdr.parts # 2 \/ hdr.scheme # "Bearer"
    THEN MwOut(0, "", FALSE, NoCtx)
    ELSE LET v   == ValidateToken(c, hdr.token, t)
             got == FindByID(us, v.claims.user_id)
             user == got.user
             roles == IF fault = "GetUserRoles" THEN <<>> ELSE GetUserRoles(us, user.id)
         IN  IF ~v.ok
             THEN MwOut(0, "", FALSE, NoCtx)
             ELSE IF fault = "FindByID" \/ ~got.found
             THEN MwOut(0, "", FALSE, NoCtx)
             ELSE MwOut(0, "", FALSE,
                        [keys |-> {"user", "user_id", "user_roles"},
                         user |-> user, user_roles |-> roles])

\* a request that has passed through the middleware before the gate and meets the gate
GateStep(op, ctx, out, roles, permissions) ==
    /\ last' = [Blank EXCEPT !.op = op, !.ctx = ctx,
                             !.requiredRoles = roles, !.requiredPerms = permissions,
                             !.status = out.status, !.body = out.body,
                             !.aborted = out.aborted]
    /\ UNCHANGED <<calls, cfg, now, ticks, clockLog, users, cache>>

\* a request to a route behind AuthMiddleware
ProtectedRequest(hdr, fault) ==
    LET res == AuthMiddleware(users, cfg, now, hdr, fault)
    IN  /\ last' = [Blank EXCEPT !.op = "AuthMiddleware", !.token = hdr.token,
                                 !.parts = hdr.parts, !.scheme = hdr.scheme,
                                 !.fault = res.fault,
                                 !.status = res.status, !.body = res.body,
                                 !.aborted = res.aborted, !.ctx = res.ctx]
        /\ UNCHANGED <<calls, cfg, now, ticks, clockLog, users, cache>>

(***************************************************************************)
(* Roles and the access-control gates (domain.Role, middleware/rbac.go).   *)
(* A role name is a sequence of one-character strings, so that case        *)
(* folding is computed; a permission is an opaque string.  The permissions *)
(* column is JSON: either an array of strings or something that does not   *)
(* unmarshal into one.                                                     *)
(***************************************************************************)
LowerChar(ch) ==
    CASE ch = "A" -> "a"
      [] ch = "D" -> "d"
      [] ch = "U" -> "u"
      [] OTHER -> ch

\* strings.ToLower
ToLower(str) == [i \in 1..Len(str) |-> LowerChar(str[i])]

\* deviation: names compared as they are written
EqualFoldExact(a, b) ==
    a = b

\* strings.EqualFold
EqualFold(a, b) ==
    /\ Len(a) = Len(b)
    /\ \A i \in 1..Len(a) : LowerChar(a[i]) = LowerChar(b[i])

GetPermissions(r) ==
    IF ~r.permissions.valid THEN <<>> ELSE r.permissions.items

\* deviation: only a literal match grants
HasPermissionLiteral(r, permission) ==
    \E i \in 1..Len(GetPermissions(r)) : GetPermissions(r)[i] = permission

HasPermission(r, permission) ==
    LET perms == GetPermissions(r)
    IN  \E i \in 1..Len(perms) : perms[i] = "*" \/ perms[i] = permission

\* deviation: one of the required permissions is enough
HasAllPermissionsAnyOne(r, permissions) ==
    LET perms   == GetPermissions(r)
        permMap == {perms[i] : i \in 1..Len(perms)}
    IN  IF "*" \in permMap
        THEN TRUE
        ELSE \E i \in 1..Len(permissions) : permissions[i] \in permMap

HasAllPermissions(r, permissions) ==
    LET perms   == GetPermissions(r)
        permMap == {perms[i] : i \in 1..Len(perms)}
    IN  IF "*" \in permMap
        THEN TRUE
        ELSE \A i \in 1..Len(permissions) : permissions[i] \in permMap

GetUserFromContext(ctx) == "user" \in ctx.keys

GetUserRolesFromContext(ctx) == "user_roles" \in ctx.keys

GateOut(status, body, missing) ==
    [status |-> status, body |-> body, aborted |-> status # 0, missing |-> missing]

RequireRole(ctx, roles) ==
    LET userRoles == ctx.user_roles
        hasRole   == \E i \in 1..Len(roles), j \in 1..Len(userRoles) :
                         EqualFold(userRoles[j].name, roles[i])
    IN  IF ~GetUserFromContext(ctx)
        THEN GateOut(401, "Authentication required", <<>>)
        ELSE IF ~GetUserRolesFromContext(ctx) \/ Len(userRoles) = 0
        THEN GateOut(403, "Insufficient permissions", <<>>)
        ELSE IF ~hasRole
        THEN GateOut(403, "Insufficient permissions", <<>>)
        ELSE GateOut(0, "", <<>>)

RequireAnyRole(ctx, roles) == RequireRole(ctx, roles)

\* deviation: the gate without the refusal of an empty or missing role list
RequireAllRolesAdmittingNoRoles(ctx, roles) ==
    LET userRoles   == ctx.user_roles
        userRoleMap == {ToLower(userRoles[j].name) : j \in 1..Len(userRoles)}
        lacking     == {i \in 1..Len(roles) : ToLower(roles[i]) \notin userRoleMap}
    IN  IF ~GetUserFromContext(ctx)
        THEN GateOut(401, "Authentication required", <<>>)
        ELSE IF lacking # {}
        THEN GateOut(403, "Insufficient permissions",
                     <<roles[CHOOSE i \in lacking : \A k \in lacking : i <= k]>>)
        ELSE GateOut(0, "", <<>>)

RequireAllRoles(ctx, roles) ==
    LET userRoles   == ctx.user_roles
        userRoleMap == {ToLower(userRoles[j].name) : j \in 1..Len(userRoles)}
        lacking     == {i \in 1..Len(roles) : ToLower(roles[i]) \notin userRoleMap}
    IN  IF ~GetUserFromContext(ctx)
        THEN GateOut(401, "Authentication required", <<>>)
        ELSE IF ~GetUserRolesFromContext(ctx) \/ Len(userRoles) = 0
        THEN GateOut(403, "Insufficient permissions", <<>>)
        ELSE IF lacking # {}
        THEN GateOut(403, "Insufficient permissions",
                     <<roles[CHOOSE i \in lacking : \A k \in lacking : i <= k]>>)
        ELSE GateOut(0, "", <<>>)

RequirePermission(ctx, permissions) ==
    LET userRoles       == ctx.user_roles
        userPermissions == UNION {{GetPermissions(userRoles[j])[k] :
                                       k \in 1..Len(GetPermissions(userRoles[j]))} :
                                   j \in 1..Len(userRoles)}
        Missing(perm)   == perm \notin userPermissions /\ "*" \notin userPermissions
        missingPermissions == SelectSeq(permissions, Missing)
    IN  IF ~GetUserFromContext(ctx)
        THEN GateOut(401, "Authentication required", <<>>)
        ELSE IF ~GetUserRolesFromContext(ctx) \/ Len(userRoles) = 0
        THEN GateOut(403, "Insufficient permissions", <<>>)
        ELSE IF missingPermissions # <<>>
        THEN GateOut(403, "Insufficient permissions", missingPermissions)
        ELSE GateOut(0, "", <<>>)

(***************************************************************************)
(* Environment: the clock, and an operator disabling an account            *)
(***************************************************************************)
Tick(d) ==
    /\ ticks < MaxTicks
    /\ ticks' = ticks + 1
    /\ now' = now + d
    /\ clockLog' = clockLog \cup {now + d}
    /\ cache' = ExpireKeys(cache, now + d)
    /\ UNCHANGED <<calls, cfg, users, last>>

DisableAccount(id) ==
    /\ users[id].isActive
    /\ users' = [users EXCEPT ![id].isActive = FALSE]
    /\ UNCHANGED <<calls, cfg, now, ticks, clockLog, cache, last>>

\* the response is written and the request ends
Respond ==
    /\ ~Idle
    /\ last' = Blank
    /\ UNCHANGED <<calls, cfg, now, ticks, clockLog, users, cache>>

(***************************************************************************)
(* Inputs                                                                  *)
(***************************************************************************)
Requests == [email : Emails, password : Passwords]

\* a new account is opened with "password1" or "short"; a request for an e-mail
\* that is already registered carries any password
RegisterRequests ==
    {r \in Requests : r.password = "hunter22" => ExistsByEmail(users, r.email)}

LoginRequests ==
    {r \in Requests : r.email \in GoodEmails \cup {EmailNoTLD}}

\* every refresh token the service can have signed for a stored user at a time the
\* clock has shown, whether a handler registered it in the cache or not
IssuedRefreshTokens ==
    {GenerateRefreshToken(cfg, i, t) : i \in 1..Len(users), t \in clockLog}

IssuedAccessTokens ==
    {GenerateAccessToken(cfg, users[i].id, users[i].email, t) :
        i \in 1..Len(users), t \in clockLog}

RefreshInputs == IssuedRefreshTokens \cup {NoToken}

ForgeBase == [user_id |-> 1, email |-> GoodEmail(1),
              exp |-> cfg.AccessTokenExpiry, iat |-> 0, iss |-> cfg.Issuer]

ForgedTokens ==
    { SignedString("HS384", ForgeBase, cfg.Secret),
      SignedString("RS256", ForgeBase, cfg.Secret),
      SignedString("none", ForgeBase, ""),
      SignedString("HS256", ForgeBase, "attacker-key"),
      SignedString("XS999", ForgeBase, cfg.Secret),
      SignedString("HS256", [ForgeBase EXCEPT !.exp = NoTime], cfg.Secret),
      <<Header("HS256"), [ForgeBase EXCEPT !.user_id = 2],
        [Sign("HS256", cfg.Secret) EXCEPT !.intact = FALSE]>>,
      <<Header("HS256")>>,
      GenerateAccessToken(cfg, Cardinality(GoodEmails) + 1, EmailNoAt, 0) }

BearerTokens == IssuedAccessTokens \cup ForgedTokens

Headers ==
    {[parts |-> 2, scheme |-> "Bearer", token |-> tok] : tok \in BearerTokens}
    \cup {[parts |-> 0, scheme |-> "", token |-> NoToken],
          [parts |-> 1, scheme |-> "Bearer", token |-> NoToken],
          [parts |-> 2, scheme |-> "Basic", token |-> NoToken]}

\* finite sequences over S of length at most n
SeqsUpTo(S, n) == UNION {[1..k -> S] : k \in 0..n}

PermissionStrings == {"*", "workflow:read", "workflow:write", "report:export"}

\* rows of the roles table; "report:export" is in none of them
SampleRoles ==
    { [name |-> <<"a", "d">>, permissions |-> JSONArray(<<"*">>)],
      [name |-> <<"a">>,      permissions |-> JSONArray(<<"workflow:read", "*">>)],
      [name |-> <<"u">>,      permissions |-> JSONArray(<<"workflow:read">>)],
      [name |-> <<"U", "d">>, permissions |-> JSONArray(<<"workflow:write">>)],
      [name |-> <<"d">>,      permissions |-> JSONNotStrings] }

RoleLists == SeqsUpTo(SampleRoles, MaxRoles)

RequiredRoleNames == {<<"a", "d">>, <<"A", "D">>, <<"u">>, <<"u", "d">>, <<"D">>}

RequiredRoleLists == SeqsUpTo(RequiredRoleNames, MaxRequired)

RequiredPermLists == SeqsUpTo(PermissionStrings, MaxRequired)

SampleUser == [NoUser EXCEPT !.id = 1, !.email = GoodEmail(1), !.isActive = TRUE,
                             !.passwordHash = HashPassword("password1").hash]

\* the contexts a gate can meet: none of the keys set (no AuthMiddleware before it),
\* or the keys AuthMiddleware sets, with the roles it resolved
GateContexts ==
    {NoCtx} \cup
    {[keys |-> {"user", "user_id", "user_email", "user_roles"},
      user |-> SampleUser, user_roles |-> rs] : rs \in RoleLists}

(***************************************************************************)
(* RefreshToken calls in flight                                            *)
(***************************************************************************)
\* each request runs authUseCase.RefreshToken in a goroutine of its own; a call
\* record is the goroutine's position and its local variables
Callers == 1..MaxCallers

IdleCall ==
    [pc |-> "idle", token |-> NoToken, userID |-> 0, user |-> NoUser,
     access |-> NoToken, refresh |-> NoToken, err |-> "",
     email |-> NoEmail, password |-> "",
     \* history: the call began while a RefreshToken call on its token was running
     raced |-> FALSE]

(***************************************************************************)
(* The state machine                                                       *)
(***************************************************************************)
Init ==
    /\ cfg \in JWTConfigs
    /\ now = 0
    /\ ticks = 0
    /\ clockLog = {0}
    /\ users = <<>>
    /\ cache = EmptyCache
    /\ last = Blank
    /\ calls = [i \in Callers |-> IdleCall]

DoRegister ==
    /\ Idle
    /\ \E req \in RegisterRequests, fault \in {"none", "ExistsByEmail", "Create", "Set"} :
           HandlerRegister(req, fault)

DoLogin ==
    /\ Idle
    /\ \E req \in LoginRequests, fault \in {"none", "FindByEmail", "Set", "Update"} :
           HandlerLogin(req, fault)

DoRefreshToken ==
    /\ Idle
    /\ \E tok \in RefreshInputs, fault \in {"none", "Get", "FindByID", "Delete", "Set"} :
           HandlerRefreshToken(tok, fault)

DoLogout ==
    /\ Idle
    /\ \E tok \in RefreshInputs, fault \in {"none", "Delete"} :
           HandlerLogout(tok, fault)

DoProtectedRequest ==
    /\ Idle
    /\ \E hdr \in Headers, fault \in {"none", "FindByID", "GetUserRoles"} :
           ProtectedRequest(hdr, fault)

DoTick ==
    /\ Idle
    /\ \E d \in {1, SessionTTL} : Tick(d)

DoDisableAccount ==
    /\ Idle
    /\ \E id \in 1..Len(users) : DisableAccount(id)

Next ==
    \/ DoRegister
    \/ DoLogin
    \/ DoRefreshToken
    \/ DoLogout
    \/ DoProtectedRequest
    \/ DoTick
    \/ DoDisableAccount
    \/ Respond

Spec == Init /\ [][Next]_vars

\* the session operations alone: registration, login, rotation and logout
NextSession ==
    \/ DoRegister
    \/ DoLogin
    \/ DoRefreshToken
    \/ DoLogout
    \/ DoTick
    \/ Respond

SpecSession == Init /\ [][NextSession]_vars

\* access tokens at the middleware: accounts are opened, logged into and disabled,
\* and requests arrive at protected routes
NextAccess ==
    \/ DoRegister
    \/ DoLogin
    \/ DoProtectedRequest
    \/ DoTick
    \/ DoDisableAccount
    \/ Respond

SpecAccess == Init /\ [][NextAccess]_vars

\* the access-control gates on the contexts they can meet
DoRequireRole ==
    /\ Idle
    /\ \E ctx \in GateContexts, roles \in RequiredRoleLists :
           GateStep("RequireRole", ctx, RequireRole(ctx, roles), roles, <<>>)

DoRequireAnyRole ==
    /\ Idle
    /\ \E ctx \in GateContexts, roles \in RequiredRoleLists :
           GateStep("RequireAnyRole", ctx, RequireAnyRole(ctx, roles), roles, <<>>)

DoRequireAllRoles ==
    /\ Idle
    /\ \E ctx \in GateContexts, roles \in RequiredRoleLists :
           GateStep("RequireAllRoles", ctx, RequireAllRoles(ctx, roles), roles, <<>>)

DoRequirePermission ==
    /\ Idle
    /\ \E ctx \in GateContexts, permissions \in RequiredPermLists :
           GateStep("RequirePermission", ctx, RequirePermission(ctx, permissions),
                    <<>>, permissions)

NextGates ==
    \/ DoRequireRole
    \/ DoRequireAnyRole
    \/ DoRequireAllRoles
    \/ DoRequirePermission
    \/ Respond

SpecGates == Init /\ [][NextGates]_vars

(***************************************************************************)
(* Concurrent RefreshToken calls, one step per store operation             *)
(***************************************************************************)
\* the request arrives with a refresh token
CallBegin(i, refreshToken) ==
    /\ calls[i].pc = "idle"
    /\ calls' = [calls EXCEPT ![i] = [IdleCall EXCEPT !.pc = "get",
                                                       !.token = refreshToken]]
    /\ UNCHANGED <<cfg, now, ticks, clockLog, users, cache, last>>

\* userID, err := uc.cache.Get(ctx, refreshKey)
CallGet(i) ==
    /\ calls[i].pc = "get"
    /\ LET hit == CacheGet(cache, KeyBuilderRefreshToken(calls[i].token))
       IN  calls' = [calls EXCEPT ![i] =
                        IF hit.found
                        THEN [@ EXCEPT !.pc = "find", !.userID = hit.value]
                        ELSE [@ EXCEPT !.pc = "failed", !.err = hit.err]]
    /\ UNCHANGED <<cfg, now, ticks, clockLog, users, cache, last>>

\* user, err := uc.userRepo.FindByID(ctx, userID)
CallFindByID(i) ==
    /\ calls[i].pc = "find"
    /\ LET got == FindByID(users, calls[i].userID)
       IN  calls' = [calls EXCEPT ![i] =
                        IF got.found
                        THEN [@ EXCEPT !.pc = "mint", !.user = got.user]
                        ELSE [@ EXCEPT !.pc = "failed", !.err = "user not found"]]
    /\ UNCHANGED <<cfg, now, ticks, clockLog, users, cache, last>>

\* both tokens are generated from the clock as it stands
CallMint(i) ==
    /\ calls[i].pc = "mint"
    /\ LET user == calls[i].user
       IN  calls' = [calls EXCEPT ![i] =
                        [@ EXCEPT !.pc = "delete",
                                  !.access = GenerateAccessToken(cfg, user.id, user.email, now),
                                  !.refresh = GenerateRefreshToken(cfg, user.id, now)]]
    /\ UNCHANGED <<cfg, now, ticks, clockLog, users, cache, last>>

\* uc.cache.Delete(ctx, refreshKey)
CallDelete(i) ==
    /\ calls[i].pc = "delete"
    /\ LET del == CacheDelete(cache, KeyBuilderRefreshToken(calls[i].token))
       IN  IF del.err # ""
           THEN /\ calls' = [calls EXCEPT ![i] =
                                [@ EXCEPT !.pc = "failed", !.err = del.err,
                                          !.access = NoToken, !.refresh = NoToken]]
                /\ UNCHANGED cache
           ELSE /\ calls' = [calls EXCEPT ![i].pc = "set"]
                /\ cache' = del.ch
    /\ UNCHANGED <<cfg, now, ticks, clockLog, users, last>>

\* uc.cache.Set(ctx, newRefreshKey, user.ID, 7*time.Hour*24), then the pair is returned
CallSet(i) ==
    /\ calls[i].pc = "set"
    /\ cache' = CacheSet(cache, KeyBuilderRefreshToken(calls[i].refresh),
                         calls[i].user.id, SessionTTL, now)
    /\ calls' = [calls EXCEPT ![i] =
                    [@ EXCEPT !.pc = "done", !.user.passwordHash = NoHash]]
    /\ UNCHANGED <<cfg, now, ticks, clockLog, users, last>>

\* the stores after one Register answered 201 at second 0, the clock showing second 1
InitRace ==
    /\ cfg \in JWTConfigs
    /\ now = 1
    /\ ticks = 0
    /\ clockLog = {0, 1}
    /\ LET reg == UCRegister(<<>>, EmptyCache, cfg, 0,
                             [email |-> GoodEmail(1), password |-> "password1"], "none")
       IN  /\ users = reg.users
           /\ cache = reg.cache
    /\ last = Blank
    /\ calls = [i \in Callers |-> IdleCall]

DoCallBegin == \E i \in Callers, tok \in IssuedRefreshTokens : CallBegin(i, tok)

DoCallGet == \E i \in Callers : CallGet(i)

DoCallFindByID == \E i \in Callers : CallFindByID(i)

DoCallMint == \E i \in Callers : CallMint(i)

DoCallDelete == \E i \in Callers : CallDelete(i)

DoCallSet == \E i \in Callers : CallSet(i)

NextRace ==
    \/ DoCallBegin
    \/ DoCallGet
    \/ DoCallFindByID
    \/ DoCallMint
    \/ DoCallDelete
    \/ DoCallSet
    \/ DoTick

SpecRace == InitRace /\ [][NextRace]_vars

(***************************************************************************)
(* Concurrent Register calls, one step per store operation                 *)
(***************************************************************************)
\* the request arrives; the two format checks read nothing shared
RegBegin(i, req) ==
    /\ calls[i].pc = "idle"
    /\ calls' = [calls EXCEPT ![i] =
                    IF ~ParseAddress(req.email)
                    THEN [IdleCall EXCEPT !.pc = "failed", !.email = req.email,
                                          !.password = req.password,
                                          !.err = "invalid email format: mail"]
                    ELSE IF ~EmailRegexMatch(req.email)
                    THEN [IdleCall EXCEPT !.pc = "failed", !.email = req.email,
                                          !.password = req.password,
                                          !.err = "invalid email format: does not match required pattern"]
                    ELSE [IdleCall EXCEPT !.pc = "exists", !.email = req.email,
                                          !.password = req.password]]
    /\ UNCHANGED <<cfg, now, ticks, clockLog, users, cache, last>>

\* exists, err := uc.userRepo.ExistsByEmail(ctx, req.Email), then the length test and the hash
RegExistsByEmail(i) ==
    /\ calls[i].pc = "exists"
    /\ calls' = [calls EXCEPT ![i] =
                    IF ExistsByEmail(users, calls[i].email)
                    THEN [@ EXCEPT !.pc = "failed", !.err = "email already registered"]
                    ELSE IF Len(calls[i].password) < MinPasswordLen
                    THEN [@ EXCEPT !.pc = "failed",
                                   !.err = "password must be at least 8 characters"]
                    ELSE IF ~HashPassword(calls[i].password).ok
                    THEN [@ EXCEPT !.pc = "failed",
                                   !.err = HashPassword(calls[i].password).err]
                    ELSE [@ EXCEPT !.pc = "create"]]
    /\ UNCHANGED <<cfg, now, ticks, clockLog, users, cache, last>>

\* uc.userRepo.Create(ctx, user)
RegCreate(i) ==
    /\ calls[i].pc = "create"
    /\ LET made == UserCreate(users,
                              [NoUser EXCEPT !.email = calls[i].email,
                                             !.passwordHash = HashPassword(calls[i].password).hash,
                                             !.isActive = TRUE])
       IN  IF ~made.ok
           THEN /\ calls' = [calls EXCEPT ![i] =
                                [@ EXCEPT !.pc = "failed",
                                          !.err = "store: duplicate key value violates unique constraint uq_users_email"]]
                /\ UNCHANGED users
           ELSE /\ calls' = [calls EXCEPT ![i] =
                                [@ EXCEPT !.pc = "regmint", !.user = made.user,
                                          !.userID = made.user.id]]
                /\ users' = made.users
    /\ UNCHANGED <<cfg, now, ticks, clockLog, cache, last>>

\* both tokens are generated from the clock as it stands
RegMint(i) ==
    /\ calls[i].pc = "regmint"
    /\ LET user == calls[i].user
       IN  calls' = [calls EXCEPT ![i] =
                        [@ EXCEPT !.pc = "regset",
                                  !.access = GenerateAccessToken(cfg, user.id, user.email, now),
                                  !.refresh = GenerateRefreshToken(cfg, user.id, now)]]
    /\ UNCHANGED <<cfg, now, ticks, clockLog, users, cache, last>>

\* uc.cache.Set(ctx, refreshKey, user.ID, 7*time.Hour*24), then the pair is returned
RegSet(i) ==
    /\ calls[i].pc = "regset"
    /\ cache' = CacheSet(cache, KeyBuilderRefreshToken(calls[i].refresh),
                         calls[i].user.id, SessionTTL, now)
    /\ calls' = [calls EXCEPT ![i].pc = "done"]
    /\ UNCHANGED <<cfg, now, ticks, clockLog, users, last>>

\* the requests of concurrent registrations: one address, a second one, a bad one
RaceRegisterRequests ==
    [email : GoodEmails \cup {EmailNoTLD}, password : {"password1", "short"}]

DoRegBegin == \E i \in Callers, req \in RaceRegisterRequests : RegBegin(i, req)

DoRegExistsByEmail == \E i \in Callers : RegExistsByEmail(i)

DoRegCreate == \E i \in Callers : RegCreate(i)

DoRegMint == \E i \in Callers : RegMint(i)

DoRegSet == \E i \in Callers : RegSet(i)

NextRegisterRace ==
    \/ DoRegBegin
    \/ DoRegExistsByEmail
    \/ DoRegCreate
    \/ DoRegMint
    \/ DoRegSet
    \/ DoTick

SpecRegisterRace == Init /\ [][NextRegisterRace]_vars

(***************************************************************************)
(* Logout calls running beside RefreshToken calls                          *)
(***************************************************************************)
\* the request arrives with a refresh token
LogoutBegin(i, refreshToken) ==
    /\ calls[i].pc = "idle"
    /\ calls' = [calls EXCEPT ![i] =
                    [IdleCall EXCEPT !.pc = "logout", !.token = refreshToken,
                                     !.raced = \E j \in Callers \ {i} :
                                                  /\ calls[j].token = refreshToken
                                                  /\ calls[j].pc \in {"get", "find", "mint",
                                                                       "delete", "set"}]]
    /\ UNCHANGED <<cfg, now, ticks, clockLog, users, cache, last>>

\* uc.cache.Delete(ctx, refreshKey) on the key Logout formats, then the return
LogoutDelete(i) ==
    /\ calls[i].pc = "logout"
    /\ LET del == CacheDelete(cache, LogoutKey(calls[i].token))
       IN  IF del.err # ""
           THEN /\ calls' = [calls EXCEPT ![i] =
                                [@ EXCEPT !.pc = "failed",
                                          !.err = "failed to logout: failed to delete key"]]
                /\ UNCHANGED cache
           ELSE /\ calls' = [calls EXCEPT ![i].pc = "loggedout"]
                /\ cache' = del.ch
    /\ UNCHANGED <<cfg, now, ticks, clockLog, users, last>>

DoLogoutBegin == \E i \in Callers, tok \in IssuedRefreshTokens : LogoutBegin(i, tok)

DoLogoutDelete == \E i \in Callers : LogoutDelete(i)

NextLogoutRace ==
    \/ DoCallBegin
    \/ DoCallGet
    \/ DoCallFindByID
    \/ DoCallMint
    \/ DoCallDelete
    \/ DoCallSet
    \/ DoLogoutBegin
    \/ DoLogoutDelete
    \/ DoTick

SpecLogoutRace == InitRace /\ [][NextLogoutRace]_vars

(***************************************************************************)
(* Refresh tokens presented as bearer credentials                          *)
(***************************************************************************)
\* an Authorization header "Bearer <refresh token>" at a route behind AuthMiddleware
DoProtectedRequestWithRefreshToken ==
    /\ Idle
    /\ \E tok \in IssuedRefreshTokens, fault \in {"none", "FindByID", "GetUserRoles"} :
           ProtectedRequest([parts |-> 2, scheme |-> "Bearer", token |-> tok], fault)

NextBearer ==
    \/ DoRegister
    \/ DoRefreshToken
    \/ DoLogout
    \/ DoProtectedRequestWithRefreshToken
    \/ DoTick
    \/ Respond

SpecBearer == Init /\ [][NextBearer]_vars

(***************************************************************************)
(* The session operations under other configured refresh lifetimes         *)
(***************************************************************************)
\* jwt.refresh_token_expiry is read from the configuration: one day, or seven
RefreshExpiries == {86400, 604800}

ConfiguredJWT ==
    {[c EXCEPT !.RefreshTokenExpiry = e] : c \in JWTConfigs, e \in RefreshExpiries}

InitConfigured ==
    /\ cfg \in ConfiguredJWT
    /\ now = 0
    /\ ticks = 0
    /\ clockLog = {0}
    /\ users = <<>>
    /\ cache = EmptyCache
    /\ last = Blank
    /\ calls = [i \in Callers |-> IdleCall]

NextConfigured ==
    \/ DoRegister
    \/ DoLogin
    \/ DoRefreshToken
    \/ DoTick
    \/ Respond

SpecConfigured == InitConfigured /\ [][NextConfigured]_vars

(***************************************************************************)
(* Requests that meet a gate after the authentication check, on a store    *)
(* holding the seeded administrator                                        *)
(***************************************************************************)
InitSeeded ==
    /\ cfg \in JWTConfigs
    /\ now = 0
    /\ ticks = 0
    /\ clockLog = {0}
    /\ users = <<SeedAdmin>>
    /\ cache = EmptyCache
    /\ last = Blank
    /\ calls = [i \in Callers |-> IdleCall]

GateOps == {"RequireRole", "RequireAnyRole", "RequireAllRoles", "RequirePermission"}

\* the gate a route puts in the chain, with its required names or permissions
Gate(op, ctx, roles, permissions) ==
    CASE op = "RequireRole" -> RequireRole(ctx, roles)
      [] op = "RequireAnyRole" -> RequireAnyRole(ctx, roles)
      [] op = "RequireAllRoles" -> RequireAllRoles(ctx, roles)
      [] op = "RequirePermission" -> RequirePermission(ctx, permissions)

GateInputs ==
    {[op |-> op, roles |-> roles, permissions |-> <<>>] :
        op \in GateOps \ {"RequirePermission"}, roles \in RequiredRoleLists}
    \cup {[op |-> "RequirePermission", roles |-> <<>>, permissions |-> permissions] :
              permissions \in RequiredPermLists}

\* c.Next() of AuthMiddleware: the request it let through reaches the gate
DoGateAfterAuth ==
    /\ last.op = "AuthMiddleware"
    /\ ~last.aborted
    /\ \E g \in GateInputs :
           GateStep(g.op, last.ctx, Gate(g.op, last.ctx, g.roles, g.permissions),
                    g.roles, g.permissions)

\* a gate on a route with no authentication check before it
DoGateWithoutAuth ==
    /\ Idle
    /\ \E g \in GateInputs :
           GateStep(g.op, NoCtx, Gate(g.op, NoCtx, g.roles, g.permissions),
                    g.roles, g.permissions)

NextFailClosed ==
    \/ DoRegister
    \/ DoProtectedRequest
    \/ DoGateAfterAuth
    \/ DoGateWithoutAuth
    \/ Respond

SpecFailClosed == InitSeeded /\ [][NextFailClosed]_vars

(***************************************************************************)
(* Properties                                                              *)
(***************************************************************************)
\* the server takes a request and `op` handles it in this step
Handles(op) == last.op = "init" /\ last'.op = op

\* the token is a JWT the service itself would accept at time t
WellSigned(tok, t) == ValidateToken(cfg, tok, t).ok

\* C1: for a refresh token t that has a live Session Store entry, after
\* Logout(t) has returned a following RefreshToken(t) fails with the
\* not-found error and mints no tokens (Logout removes the entry the other
\* operations wrote for t).
LogoutThenRefreshFails ==
    [][ ( /\ Handles("Logout")
          /\ last'.fault = "none"
          /\ last'.token # NoToken
          /\ KeyBuilderRefreshToken(last'.token) \in DOMAIN cache )
        => LET after == UCRefreshToken(users', cache', cfg', now', last'.token, "none")
           IN  /\ after.err = "key not found"
               /\ after.access = NoToken
               /\ after.refresh = NoToken ]_vars

\* C2: with no concurrent calls, after a successful RefreshToken(t) an
\* immediately following RefreshToken(t) fails with the not-found error.
RefreshTwiceSecondFails ==
    [][ ( /\ Handles("RefreshToken")
          /\ last'.status = 200 )
        => LET again == UCRefreshToken(users', cache', cfg', now', last'.token, "none")
           IN  /\ again.err = "key not found"
               /\ again.access = NoToken
               /\ again.refresh = NoToken ]_vars

\* C3: RefreshToken returns a credential pair only if the Session Store holds
\* an entry for the token at the lookup; without one the call is rejected,
\* mints no token and writes nothing, however well signed the token is.
RefreshNeedsEntry ==
    [][ ( /\ Handles("RefreshToken")
          /\ last'.token # NoToken )
        => LET held == KeyBuilderRefreshToken(last'.token) \in DOMAIN cache
           IN  /\ (last'.status = 200 \/ last'.access # NoToken \/ last'.refresh # NoToken)
                     => held
               /\ ~held => /\ last'.status = 401
                           /\ last'.err # ""
                           /\ last'.access = NoToken
                           /\ last'.refresh = NoToken
                           /\ cache' = cache
                           /\ users' = users ]_vars

\* a well-signed, unexpired refresh token has just been refused for want of an entry
RefreshNeedsEntryWitness ==
    /\ last.op = "RefreshToken"
    /\ last.status = 401
    /\ last.err = "key not found"
    /\ WellSigned(last.token, now)
    /\ \E k \in DOMAIN cache : k.id # last.token

\* rows of the users table that carry the e-mail
RowsWithEmail(us, email) == {i \in 1..Len(us) : us[i].email = email}

LoginCorrectPasswordSucceeds ==
    ( /\ last.op = "Login"
      /\ last.fault # "FindByEmail"
      /\ FindByEmail(users, last.email).found
      /\ FindByEmail(users, last.email).user.isActive
      /\ ComparePassword(FindByEmail(users, last.email).user.passwordHash,
                         last.password) = "" )
    => /\ last.status = 200
       /\ last.err = ""
       /\ Len(last.access) = 3
       /\ last.access[2].user_id = FindByEmail(users, last.email).user.id

\* C6: whenever the server takes a request, a Login with a wrong password for
\* a registered e-mail and a Login with an e-mail nobody registered get the
\* same answer, and neither writes to the Session Store or the Identity Store.
LoginFailuresIndistinguishable ==
    Idle =>
    \A r1 \in LoginRequests, r2 \in LoginRequests :
        ( /\ FindByEmail(users, r1.email).found
          /\ ComparePassword(FindByEmail(users, r1.email).user.passwordHash,
                             r1.password) # ""
          /\ ~FindByEmail(users, r2.email).found )
        => LET wrong   == UCLogin(users, cache, cfg, now, r1, "none")
               unknown == UCLogin(users, cache, cfg, now, r2, "none")
           IN  /\ LoginResponse(wrong) = LoginResponse(unknown)
               /\ LoginResponse(wrong).status = 401
               /\ LoginResponse(wrong).access = NoToken
               /\ wrong.users = users /\ wrong.cache = cache
               /\ unknown.users = users /\ unknown.cache = cache

\* a Login with a wrong password has been answered while another e-mail is unregistered
LoginFailuresIndistinguishableWitness ==
    /\ last.op = "Login"
    /\ last.fault = "none"
    /\ last.err = "invalid password"
    /\ last.status = 401
    /\ \E r \in LoginRequests :
           /\ r.email \in GoodEmails
           /\ ~FindByEmail(users, r.email).found

\* C7: Logout succeeds on a token that has no entry, and a second Logout of
\* the same token succeeds as well and leaves the Session Store as the first
\* left it.
LogoutIdempotent ==
    ( /\ last.op = "Logout"
      /\ last.fault = "none"
      /\ last.token # NoToken )
    => LET again == UCLogout(users, cache, last.token, "none")
       IN  /\ last.err = ""
           /\ last.status = 200
           /\ again.err = ""
           /\ again.cache = cache
           /\ again.users = users
           /\ LogoutKey(last.token) \notin DOMAIN cache

\* Logout has answered for a token that the Session Store never held
LogoutIdempotentWitness ==
    /\ last.op = "Logout"
    /\ last.fault = "none"
    /\ last.token # NoToken
    /\ last.err = ""
    /\ KeyBuilderRefreshToken(last.token) \notin DOMAIN cache
    /\ cache # EmptyCache

\* user ids the round trip is tried on
SampleUserIDs == 1..(Cardinality(GoodEmails) + 1)

\* C8: for every user id and e-mail and every time the clock has shown,
\* ValidateToken of the token that GenerateAccessToken made then, applied
\* before its expiry, returns claims with that id and e-mail, and the expiry
\* in it is the issue time plus the configured access-token lifetime.
AccessTokenRoundTrip ==
    Idle =>
    \A id \in SampleUserIDs, email \in Emails, t \in clockLog :
        LET tok == GenerateAccessToken(cfg, id, email, t)
            v   == ValidateToken(cfg, tok, now)
        IN  /\ tok[2].exp = t + cfg.AccessTokenExpiry
            /\ now < t + cfg.AccessTokenExpiry
               => /\ v.ok
                  /\ v.claims.user_id = id
                  /\ v.claims.email = email
                  /\ v.claims.exp = t + cfg.AccessTokenExpiry

\* the middleware has admitted an access token issued at an earlier clock second
AccessTokenRoundTripWitness ==
    /\ last.op = "AuthMiddleware"
    /\ ~last.aborted
    /\ Len(last.token) = 3
    /\ last.token[2].iat < now
    /\ last.token = GenerateAccessToken(cfg, last.ctx.user.id, last.ctx.user.email,
                                        last.token[2].iat)

\* C9: for every bearer token a request can carry, ValidateToken returns
\* claims only if the token is signed with the configured secret under an
\* HMAC-family method and is not expired; a token whose header names a method
\* of another family is refused by the key callback and no claim of it is
\* returned.
ValidateTokenOnlyHMAC ==
    Idle =>
    \A tok \in BearerTokens :
        LET v == ValidateToken(cfg, tok, now)
        IN  /\ v.ok => /\ Len(tok) = 3
                       /\ SigningMethodFamily(tok[1].alg) = "HMAC"
                       /\ tok[3].key = cfg.Secret
                       /\ tok[3].alg = tok[1].alg
                       /\ tok[3].intact
                       /\ (tok[2].exp # NoTime => now < tok[2].exp)
                       /\ v.claims = tok[2]
            /\ ~v.ok => v.claims = NoClaims
            /\ (Len(tok) = 3 /\ SigningMethodFamily(tok[1].alg) \in {"RSA", "none"})
                  => /\ ~v.ok
                     /\ v.err = "invalid token: unexpected signing method"

\* the middleware has turned away a token whose header names an RSA method
\* although it was signed with the secret
ValidateTokenOnlyHMACWitness ==
    /\ last.op = "AuthMiddleware"
    /\ last.status = 401
    /\ last.body = "Invalid or expired token"
    /\ Len(last.token) = 3
    /\ SigningMethodFamily(last.token[1].alg) = "RSA"
    /\ last.token[3].key = cfg.Secret

\* C10: for a user whose active flag is false, a token on which ValidateToken
\* succeeds is refused by AuthMiddleware with 403 "Account is disabled", the
\* request is aborted and no identity or roles enter the request context.
DisabledAccountRefused ==
    ( /\ last.op = "AuthMiddleware"
      /\ last.parts = 2
      /\ last.scheme = "Bearer"
      /\ last.fault = "none"
      /\ WellSigned(last.token, now)
      /\ FindByID(users, ValidateToken(cfg, last.token, now).claims.user_id).found
      /\ ~FindByID(users, ValidateToken(cfg, last.token, now).claims.user_id).user.isActive )
    => /\ last.status = 403
       /\ last.body = "Account is disabled"
       /\ last.aborted
       /\ last.ctx = NoCtx

\* a disabled user's still-valid access token has been refused
DisabledAccountRefusedWitness ==
    /\ last.op = "AuthMiddleware"
    /\ last.status = 403
    /\ WellSigned(last.token, now)
    /\ last.token \in IssuedAccessTokens

\* the permission strings written in a role's permissions column
PermissionSet(r) ==
    IF r.permissions.valid
    THEN {r.permissions.items[i] : i \in 1..Len(r.permissions.items)}
    ELSE {}

\* C11: a role whose permission set contains "*" has every permission:
\* HasPermission is true of it for every permission string, one in no role
\* included, and HasAllPermissions is true of it for every required list,
\* the empty one included; the RequirePermission gate lets a user holding
\* such a role pass whatever the route requires.
WildcardGrantsAll ==
    ( /\ last.op = "RequirePermission"
      /\ GetUserFromContext(last.ctx) )
    => \A j \in 1..Len(last.ctx.user_roles) :
           LET r == last.ctx.user_roles[j]
           IN  "*" \in PermissionSet(r)
               => /\ \A perm \in PermissionStrings : HasPermission(r, perm)
                  /\ HasAllPermissions(r, last.requiredPerms)
                  /\ HasAllPermissions(r, <<>>)
                  /\ last.status = 0
                  /\ ~last.aborted

\* a user whose role lists "*" after another permission has passed a gate that
\* requires a permission no role names
WildcardGrantsAllWitness ==
    /\ last.op = "RequirePermission"
    /\ last.requiredPerms = <<"report:export">>
    /\ Len(last.ctx.user_roles) = 1
    /\ last.ctx.user_roles[1].permissions = JSONArray(<<"workflow:read", "*">>)
    /\ last.status = 0

\* the predicate over a role list: the wildcard is in some role, or every required
\* permission is in the union of the roles' permission sets
ListHasAllPermissions(roles, permissions) ==
    LET union == UNION {PermissionSet(roles[j]) : j \in 1..Len(roles)}
    IN  \/ "*" \in union
        \/ \A i \in 1..Len(permissions) : permissions[i] \in union

\* what Role.HasAllPermissions is to answer for one role
RoleHasAllPermissionsAsStated ==
    /\ \A j \in 1..Len(last.ctx.user_roles) :
           LET r == last.ctx.user_roles[j]
           IN  /\ HasAllPermissions(r, last.requiredPerms)
                     <=> ListHasAllPermissions(<<r>>, last.requiredPerms)
               /\ HasAllPermissions(r, <<>>)
    /\ \A r \in SampleRoles :
           PermissionSet(r) = {"workflow:read"}
           => /\ HasPermission(r, "workflow:read")
              /\ HasAllPermissions(r, <<"workflow:read">>)
              /\ ~HasAllPermissions(r, <<"workflow:read", "workflow:write">>)

\* C12 as stated: HasAllPermissions over the role list holds iff the wildcard
\* is present or every required permission is in the union (an empty
\* required list holds for any role list, the empty one too), and the
\* RequirePermission gate admits a request exactly when it holds.
PermissionGateIsThePredicate ==
    ( /\ last.op = "RequirePermission"
      /\ GetUserFromContext(last.ctx) )
    => /\ RoleHasAllPermissionsAsStated
       /\ last.status = 0
             <=> ListHasAllPermissions(last.ctx.user_roles, last.requiredPerms)

\* C12 amended: as above, except that the RequirePermission gate admits a
\* request exactly when the role list in the context is not empty and the
\* predicate holds; a user without roles is refused with 403 even when the
\* required list is empty.
PermissionGateNeedsARole ==
    ( /\ last.op = "RequirePermission"
      /\ GetUserFromContext(last.ctx) )
    => /\ RoleHasAllPermissionsAsStated
       /\ last.status = 0
             <=> /\ Len(last.ctx.user_roles) > 0
                 /\ ListHasAllPermissions(last.ctx.user_roles, last.requiredPerms)
       /\ last.status # 0 => (last.status = 403 /\ last.aborted)

\* a user without roles has been refused by a gate that requires no permission
PermissionGateNeedsARoleWitness ==
    /\ last.op = "RequirePermission"
    /\ GetUserFromContext(last.ctx)
    /\ last.ctx.user_roles = <<>>
    /\ last.requiredPerms = <<>>
    /\ last.status = 403

\* letters that differ in case only
CasePairs == {{"a", "A"}, {"d", "D"}, {"u", "U"}}

SameIgnoringCase(a, b) ==
    /\ Len(a) = Len(b)
    /\ \A i \in 1..Len(a) : a[i] = b[i] \/ {a[i], b[i]} \in CasePairs

HasAnyRoleAsStated(roles, names) ==
    \E i \in 1..Len(names) : \E j \in 1..Len(roles) :
        SameIgnoringCase(names[i], roles[j].name)

HasAllRolesAsStated(roles, names) ==
    \A i \in 1..Len(names) : \E j \in 1..Len(roles) :
        SameIgnoringCase(names[i], roles[j].name)

\* C13 as stated: RequireRole / RequireAnyRole admit iff at least one required
\* name equals, ignoring case, the name of a role in the user's list, and
\* RequireAllRoles admits iff every required name does.
RoleGatesMatchIgnoringCase ==
    /\ (last.op \in {"RequireRole", "RequireAnyRole"} /\ GetUserFromContext(last.ctx))
       => (last.status = 0
              <=> HasAnyRoleAsStated(last.ctx.user_roles, last.requiredRoles))
    /\ (last.op = "RequireAllRoles" /\ GetUserFromContext(last.ctx))
       => (last.status = 0
              <=> HasAllRolesAsStated(last.ctx.user_roles, last.requiredRoles))

\* C13 amended: RequireRole / RequireAnyRole admit iff at least one required
\* name equals, ignoring case, the name of a role in the user's list;
\* RequireAllRoles admits iff the user's list is not empty and every
\* required name equals, ignoring case, the name of a role in it.
RoleGatesNeedARole ==
    /\ (last.op \in {"RequireRole", "RequireAnyRole"} /\ GetUserFromContext(last.ctx))
       => (last.status = 0
              <=> HasAnyRoleAsStated(last.ctx.user_roles, last.requiredRoles))
    /\ (last.op = "RequireAllRoles" /\ GetUserFromContext(last.ctx))
       => (last.status = 0
              <=> /\ Len(last.ctx.user_roles) > 0
                  /\ HasAllRolesAsStated(last.ctx.user_roles, last.requiredRoles))
    /\ (last.op \in {"RequireRole", "RequireAnyRole", "RequireAllRoles"}
        /\ GetUserFromContext(last.ctx) /\ last.status # 0)
       => (last.status = 403 /\ last.aborted)

\* a user without roles has been refused by RequireAllRoles with nothing required
RoleGatesNeedARoleWitness ==
    /\ last.op = "RequireAllRoles"
    /\ GetUserFromContext(last.ctx)
    /\ last.ctx.user_roles = <<>>
    /\ last.requiredRoles = <<>>
    /\ last.status = 403

\* C14: every successful Register, Login and RefreshToken returns a user
\* record whose password hash field is empty.
ResponsesCarryNoHash ==
    ( /\ last.op \in {"Register", "Login", "RefreshToken"}
      /\ last.err = ""
      /\ last.status \in {200, 201} )
    => /\ last.user # NoUser
       /\ last.user.passwordHash = NoHash

\* C15: a Register that fails on validation (e-mail not an address or not
\* matching the pattern, password shorter than 8 characters) or on the
\* conflict (e-mail already registered) leaves the Identity Store and the
\* Session Store as they were and returns no token.
RegisterRejectionHasNoEffect ==
    [][ ( /\ Handles("Register")
          /\ \/ ~ParseAddress(last'.email)
             \/ ~EmailRegexMatch(last'.email)
             \/ /\ last'.fault = "none"
                /\ \/ ExistsByEmail(users, last'.email)
                   \/ Len(last'.password) < MinPasswordLen )
        => /\ last'.err \in {"invalid email format: mail",
                             "invalid email format: does not match required pattern",
                             "email already registered",
                             "password must be at least 8 characters"}
           /\ last'.status \in {400, 409}
           /\ last'.access = NoToken
           /\ last'.refresh = NoToken
           /\ users' = users
           /\ cache' = cache ]_vars

\* a Register with a too-short password has been rejected while users and sessions exist
RegisterRejectionHasNoEffectWitness ==
    /\ last.op = "Register"
    /\ last.status = 400
    /\ last.err = "password must be at least 8 characters"
    /\ Len(users) > 0
    /\ cache # EmptyCache

\* C16: a successful RefreshToken(t) returns a refresh token different from
\* t; afterwards t has no Session Store entry and the new token has one,
\* bound to the user id t was bound to, whenever t was issued and whenever
\* it is refreshed.
RotationReplacesSession ==
    [][ ( /\ Handles("RefreshToken")
          /\ last'.status = 200 )
        => /\ last'.refresh # last'.token
           /\ KeyBuilderRefreshToken(last'.token) \notin DOMAIN cache'
           /\ KeyBuilderRefreshToken(last'.refresh) \in DOMAIN cache'
           /\ cache'[KeyBuilderRefreshToken(last'.refresh)].value
                 = cache[KeyBuilderRefreshToken(last'.token)].value ]_vars

\* C19: when Register, Login or RefreshToken fails at any step, a failing
\* store call included, the Session Store holds no entry the call added (an
\* entry for a refresh token that was not returned to the caller).
FailedCallLeavesNoSession ==
    [][ ( /\ last.op = "init"
          /\ last'.op \in {"Register", "Login", "RefreshToken"}
          /\ last'.err # "" )
        => DOMAIN cache' \subseteq DOMAIN cache ]_vars

\* C20: when Register fails at the Session Store write, after the user was
\* created, the user stays in the Identity Store without a session; a retry
\* of Register for the e-mail meets the conflict error, and a Login with the
\* same e-mail and password succeeds and registers a session for the user.
RegisterNotRolledBack ==
    [][ ( /\ Handles("Register")
          /\ last'.fault = "Set" )
        => LET req   == [email |-> last'.email, password |-> last'.password]
               row   == FindByEmail(users', req.email)
               retry == UCRegister(users', cache', cfg', now', req, "none")
               login == UCLogin(users', cache', cfg', now', req, "none")
           IN  /\ last'.err # ""
               /\ last'.access = NoToken
               /\ last'.refresh = NoToken
               /\ ~ExistsByEmail(users, req.email)
               /\ row.found
               /\ Len(users') = Len(users) + 1
               /\ cache' = cache
               /\ retry.err = "email already registered"
               /\ retry.users = users'
               /\ login.err = ""
               /\ Len(login.access) = 3
               /\ login.access[2].user_id = row.user.id
               /\ KeyBuilderRefreshToken(login.refresh) \in DOMAIN login.cache
               /\ login.cache[KeyBuilderRefreshToken(login.refresh)].value = row.user.id ]_vars

\* a Register has failed at the session write and left its user behind
RegisterNotRolledBackWitness ==
    /\ last.op = "Register"
    /\ last.fault = "Set"
    /\ last.status = 400
    /\ ExistsByEmail(users, last.email)
    /\ \A k \in DOMAIN cache : cache[k].value # FindByEmail(users, last.email).user.id

\* C18: when RefreshToken(t) stops between deleting t's entry and setting
\* the new one (the Set call fails), neither t nor the refresh token the
\* call minted has a Session Store entry, and the caller gets no credential
\* pair.
FailedRotationLeavesNoSession ==
    [][ ( /\ Handles("RefreshToken")
          /\ last'.fault = "Set" )
        => LET old    == KeyBuilderRefreshToken(last'.token)
               minted == GenerateRefreshToken(cfg, cache[old].value, now)
           IN  /\ last'.err # ""
               /\ last'.access = NoToken
               /\ last'.refresh = NoToken
               /\ old \notin DOMAIN cache'
               /\ KeyBuilderRefreshToken(minted) \notin DOMAIN cache' ]_vars

\* C17: two RefreshToken calls running at the same time on one live token
\* both read its entry before either deletes it and then both succeed: a
\* call that has read its token's entry never fails afterwards, and when it
\* returns it has registered its minted refresh token for the entry's user
\* and hands back a credential pair.
RacingRefreshCallsAllSucceed ==
    [][ \A i \in Callers :
            /\ calls[i].pc \in {"find", "mint", "delete", "set"}
               => calls'[i].pc # "failed"
            /\ (calls[i].pc = "set" /\ calls'[i].pc = "done")
               => LET key == KeyBuilderRefreshToken(calls'[i].refresh)
                  IN  /\ calls'[i].err = ""
                      /\ calls'[i].access # NoToken
                      /\ calls'[i].refresh # NoToken
                      /\ key \in DOMAIN cache'
                      /\ cache'[key].value = calls'[i].userID ]_vars

\* two calls on the same token have both returned, their refresh tokens
\* differ and both have a live entry for the same user, the presented token
\* has none
RacingRefreshCallsAllSucceedWitness ==
    \E i, j \in Callers :
        LET ki == KeyBuilderRefreshToken(calls[i].refresh)
            kj == KeyBuilderRefreshToken(calls[j].refresh)
        IN  /\ i # j
            /\ calls[i].pc = "done"
            /\ calls[j].pc = "done"
            /\ calls[i].token = calls[j].token
            /\ calls[i].refresh # calls[j].refresh
            /\ KeyBuilderRefreshToken(calls[i].token) \notin DOMAIN cache
            /\ ki \in DOMAIN cache
            /\ kj \in DOMAIN cache
            /\ cache[ki].value = cache[kj].value
            /\ cache[ki].expireAt > now
            /\ cache[kj].expireAt > now

\* C23: a Register with a structurally valid e-mail and a password shorter
\* than 8 characters is rejected with the weak-password error, whether or
\* not the e-mail is already registered (the length gate comes before the
\* uniqueness check).
RegisterWeakPasswordBeforeUniqueness ==
    ( /\ last.op = "Register"
      /\ last.fault = "none"
      /\ ParseAddress(last.email)
      /\ EmailRegexMatch(last.email)
      /\ Len(last.password) < MinPasswordLen )
    => /\ last.err = "password must be at least 8 characters"
       /\ last.status = 400
       /\ last.body = last.err

\* C28: a user whose active flag is false obtains no credentials and no
\* identity: Login and RefreshToken mint no pair for such a user, and
\* neither AuthMiddleware nor OptionalAuth attaches such a user to the
\* request context.
InactiveUserGetsNothing ==
    /\ (last.op \in {"Login", "RefreshToken"} /\ last.status = 200)
       => last.user.isActive
    /\ (last.op = "AuthMiddleware" /\ "user" \in last.ctx.keys)
       => last.ctx.user.isActive
    /\ Idle =>
         /\ \A tok \in IssuedRefreshTokens :
                LET res == UCRefreshToken(users, cache, cfg, now, tok, "none")
                IN  res.err = "" => res.user.isActive
         /\ \A hdr \in Headers :
                LET res == OptionalAuth(users, cfg, now, hdr, "none")
                IN  "user" \in res.ctx.keys => res.ctx.user.isActive

\* the bearer token is expired or invalid: not three segments, no HMAC-family
\* method, not signed with the configured secret, or past its expiry
ExpiredOrInvalid(tok, t) ==
    \/ Len(tok) # 3
    \/ /\ Len(tok) = 3
       /\ \/ SigningMethodFamily(tok[1].alg) # "HMAC"
          \/ tok[3] # Sign(tok[1].alg, cfg.Secret)
          \/ (tok[2].exp # NoTime /\ tok[2].exp <= t)

\* C25: the authentication check never changes the Session Store, and for
\* an expired or invalid access token it aborts with 401, attaches nothing
\* to the context and hands out no token, whatever sessions the user holds.
AuthCheckLeavesSessionsAlone ==
    [][ Handles("AuthMiddleware")
        => /\ cache' = cache
           /\ users' = users
           /\ last'.access = NoToken
           /\ last'.refresh = NoToken
           /\ ( /\ last'.parts = 2
                /\ last'.scheme = "Bearer"
                /\ ExpiredOrInvalid(last'.token, now) )
              => /\ last'.status = 401
                 /\ last'.body = "Invalid or expired token"
                 /\ last'.aborted
                 /\ last'.ctx = NoCtx ]_vars

\* an access token the service issued is presented after its expiry while
\* its user holds a live session, and the request is refused
AuthCheckLeavesSessionsAloneWitness ==
    /\ last.op = "AuthMiddleware"
    /\ last.status = 401
    /\ last.token \in IssuedAccessTokens
    /\ last.token[2].exp <= now
    /\ \E k \in DOMAIN cache :
           /\ cache[k].value = last.token[2].user_id
           /\ cache[k].expireAt > now

\* C27: a refresh token presented in the Authorization header is rejected
\* by the authentication check, whether its session is live, rotated away
\* or logged out: the request is aborted and no user is attached.
RefreshTokenIsNoBearerCredential ==
    ( /\ last.op = "AuthMiddleware"
      /\ last.token \in IssuedRefreshTokens )
    => /\ last.aborted
       /\ last.status = 401
       /\ last.ctx = NoCtx

\* C29: every Session Store entry maps a refresh token to the id of the
\* user named in that token's claims, and every credential pair a call
\* returns carries one user id in its access token, its refresh token and
\* the session entry bound to the refresh token.
SessionsAndPairsNameOneUser ==
    /\ \A k \in DOMAIN cache :
           /\ k.ns = <<KeyPrefix, "refresh_token">>
           /\ Len(k.id) = 3
           /\ k.id[2].user_id = cache[k].value
           /\ cache[k].value \in 1..Len(users)
    /\ ( /\ last.op \in {"Register", "Login", "RefreshToken"}
         /\ last.status \in {200, 201} )
       => LET key == KeyBuilderRefreshToken(last.refresh)
          IN  /\ Len(last.access) = 3
              /\ Len(last.refresh) = 3
              /\ last.access[2].user_id = last.user.id
              /\ last.refresh[2].user_id = last.user.id
              /\ last.access[2].email = last.user.email
              /\ key \in DOMAIN cache
              /\ cache[key].value = last.user.id

\* the second user's session has been rotated while another session is held
SessionsAndPairsNameOneUserWitness ==
    /\ last.op = "RefreshToken"
    /\ last.status = 200
    /\ last.user.id = 2
    /\ \E k \in DOMAIN cache : cache[k].value = 1
    /\ \E k \in DOMAIN cache : cache[k].value = 2

\* C24: refresh chains are independent: Logout(t) and RefreshToken(t)
\* create, delete or change no Session Store entry of a refresh token that
\* another Login or Register call issued, and a successful Login yields a
\* session of its own, separate from every session already held.
ChainsAreIndependent ==
    [][ /\ (Handles("Logout") \/ Handles("RefreshToken"))
           => LET own  == KeyBuilderRefreshToken(last'.token)
                  made == KeyBuilderRefreshToken(last'.refresh)
              IN  /\ \A k \in (DOMAIN cache \cup DOMAIN cache') \ {own} :
                         k # made => /\ k \in DOMAIN cache
                                     /\ k \in DOMAIN cache'
                                     /\ cache'[k] = cache[k]
                  /\ last'.refresh # NoToken => made \notin (DOMAIN cache \ {own})
        /\ (Handles("Login") /\ last'.status = 200)
           => KeyBuilderRefreshToken(last'.refresh) \notin DOMAIN cache ]_vars

\* C22: for every configured refresh lifetime, the TTL of the Session Store
\* entry of every refresh token that Register, Login or RefreshToken
\* registered is the lifetime in the token itself (expiry minus issued-at),
\* which is the configured refresh lifetime: entry and token expire together.
SessionTTLIsTokenLifetime ==
    \A k \in DOMAIN cache :
        LET claims == k.id[2]
        IN  /\ claims.exp - claims.iat = cfg.RefreshTokenExpiry
            /\ cache[k].expireAt - claims.iat = cfg.RefreshTokenExpiry
            /\ cache[k].expireAt = claims.exp

\* C30: role resolution fails closed: when fetching the user's roles fails
\* in the authentication check the request goes on with an empty role
\* list; every gate denies with 403 a request whose role list is empty or
\* missing, whatever names or permissions it requires, and with 401 a
\* request with no user attached.
RoleResolutionFailsClosed ==
    [][ /\ (Handles("AuthMiddleware") /\ last'.fault = "GetUserRoles")
           => /\ ~last'.aborted
              /\ last'.status = 0
              /\ {"user", "user_roles"} \subseteq last'.ctx.keys
              /\ last'.ctx.user_roles = <<>>
        /\ (last.op \in {"init", "AuthMiddleware"} /\ last'.op \in GateOps)
           => /\ "user" \notin last'.ctx.keys
                 => /\ last'.status = 401
                    /\ last'.body = "Authentication required"
                    /\ last'.aborted
              /\ ( /\ "user" \in last'.ctx.keys
                   /\ \/ "user_roles" \notin last'.ctx.keys
                      \/ last'.ctx.user_roles = <<>> )
                 => /\ last'.status = 403
                    /\ last'.body = "Insufficient permissions"
                    /\ last'.aborted
              /\ (last.op = "AuthMiddleware" /\ last.fault = "GetUserRoles")
                 => /\ last'.ctx = last.ctx
                    /\ last'.status = 403 ]_vars

\* the administrator's roles could not be fetched, and the gate that asks
\* for the admin role has refused the request
RoleResolutionFailsClosedWitness ==
    /\ last.op = "RequireRole"
    /\ last.ctx.user = SeedAdmin
    /\ last.ctx.user_roles = <<>>
    /\ last.requiredRoles = <<AdminRole.name>>
    /\ last.status = 403

\* C21: under any interleaving of concurrent Register calls for one
\* e-mail, several of which may pass the ExistsByEmail check before any
\* inserts, at most one call gets past the insert and the Identity Store
\* never holds two users with that e-mail.
ConcurrentRegisterOneWinner ==
    /\ \A a, b \in 1..Len(users) : users[a].email = users[b].email => a = b
    /\ \A i, j \in Callers :
           ( /\ calls[i].pc \in {"regmint", "regset", "done"}
             /\ calls[j].pc \in {"regmint", "regset", "done"}
             /\ calls[i].email = calls[j].email )
           => i = j
    /\ \A i \in Callers :
           calls[i].pc \in {"regmint", "regset", "done"}
           => /\ calls[i].userID \in 1..Len(users)
              /\ users[calls[i].userID].email = calls[i].email

\* two calls for one e-mail both passed the ExistsByEmail check; one has
\* returned its pair, the other was rejected by the uniqueness constraint
ConcurrentRegisterOneWinnerWitness ==
    \E i, j \in Callers :
        /\ calls[i].pc = "done"
        /\ calls[j].pc = "failed"
        /\ calls[j].err = "store: duplicate key value violates unique constraint uq_users_email"
        /\ calls[i].email = calls[j].email
        /\ Cardinality({a \in 1..Len(users) : users[a].email = calls[i].email}) = 1

\* C26: when Logout(t) and RefreshToken(t) on one live token interleave,
\* then once both have returned no live session derived from t remains:
\* Logout has not returned success while a refresh token obtained from t
\* still has a Session Store entry.
LogoutEndsRacingRefresh ==
    \A i, j \in Callers :
        ( /\ calls[i].pc = "loggedout"
          /\ calls[i].raced
          /\ calls[j].pc = "done"
          /\ calls[j].token = calls[i].token
          /\ calls[j].refresh # NoToken )
        => KeyBuilderRefreshToken(calls[j].refresh) \notin DOMAIN cache

====
